---- MODULE Spec2Model ----
(***************************************************************************)
(* Model of matchbox_socket/src/webrtc_socket/socket.rs: the socket        *)
(* builder, the per-channel handles (WebRtcChannel), the socket handle     *)
(* (WebRtcSocket: channel slots, peer table, identity latch) and the       *)
(* orchestration future run_socket.                                        *)
(*                                                                         *)
(* The module holds one state space and several specifications, one per    *)
(* component; each specification leaves the other components' variables    *)
(* unchanged.                                                              *)
(***************************************************************************)
EXTENDS Integers, Sequences, FiniteSets, TLC

(***************************************************************************)
(* Bounds of the model.                                                    *)
(***************************************************************************)
\* number of channels configured in the builder (self.channels.len())
NumChannels == 2
\* total number of packets ever enqueued (both directions, all channels)
MaxMsgs == 2
\* total number of peer-state events the message loop ever emits
MaxEvents == 3
\* number of values ever put on the identity link (one is the contract)
MaxIdSends == 2

\* WebRtcSocketBuilder::new: `attempts: Some(3)`
DefaultAttempts == 3

PeerId == {"A", "B"}
PeerState == {"Connected", "Disconnected"}
\* the errors of the signalling loop; the tests name ConnectionFailed
SignallingError == {"ConnectionFailed", "Other"}
Packet == {"p1", "p2"}
\* the (PeerId, Packet) pairs carried by the per-channel queues
Item == {<<"A", "p1">>, <<"B", "p2">>}

\* the execution contexts that call id() (it takes &self)
Thread == {"t1", "t2"}

ChannelIds == 0 .. (NumChannels - 1)
\* configured channels a builder is given at most
MaxConfigured == 3

\* indices a caller may pass to channel()/take_channel(); NumChannels itself
\* is the first index that names no configured channel
CallIndex == 0 .. NumChannels

VARIABLES
    channels,       \* WebRtcSocket.channels : index -> "Some" | "None"
    from_peer,      \* per channel: the inbound unbounded queue (from_peer_tx -> rx)
    to_peer,        \* per channel: the outbound unbounded queue (tx -> to_peer_rx)
    loop_alive,     \* the MessageLoopFuture still owns the collaborator halves
    enqueued,       \* number of packets enqueued so far (bounded by MaxMsgs)
    takeCalled,     \* history: valid indices take_channel has been called with
    lastOp,         \* the last caller operation on the channels and what it returned
    tick,           \* flips on every caller operation on the channels
    enq_hist,       \* history, per channel: every item the collaborator enqueued, in order
    recv_hist,      \* history, per channel: the results of all receive() calls, concatenated
    peers,          \* WebRtcSocket.peers : HashMap<PeerId, PeerState>
    peer_state,     \* the unbounded queue peer_state_tx -> peer_state_rx
    changes,        \* what the last update_peers() returned
    emitted,        \* number of peer-state events emitted so far (bounded)
    peersBefore,    \* history: the table when the last update_peers() began
    drained,        \* history: the events the last update_peers() found queued
    updTick,        \* flips on every update_peers() call
    sinceUpdate,    \* history: "not called", or whether an event arrived since
                    \* the last update_peers() call: "no event" | "event"
    lastDrained,    \* history, per peer: state of the last event drained for it
    lastReported,   \* history, per peer: state of the last change reported for it
    listed,         \* the last connected_peers() / disconnected_peers() and its items
    qTick,          \* flips on every connected_peers() / disconnected_peers() call
    id,             \* WebRtcSocket.id : the OnceBox latch, <<>> or <<v>>
    id_rx,          \* the crossbeam bounded(1) link id_tx -> id_rx
    id_pc,          \* per calling thread: where it stands inside id()
    id_local,       \* per calling thread: the value try_recv handed it
    id_ret,         \* per calling thread: what its last id() returned
    id_sent,        \* number of values put on the identity link so far
    id_seen,        \* history, per thread: values id() had returned to anyone
                    \* when the thread's current call began
    id_returned,    \* history: every value some id() call has returned
    message_loop_done,     \* the fused message loop: pending | ready | terminated | dropped
    message_loop_out,      \* what it returns when polled to completion ("-": undecided)
    signalling_loop_done,  \* the fused signalling loop, likewise
    signalling_loop_out,   \* "Ok" or a SignallingError ("-": undecided)
    attempts_made,         \* failed connection attempts of the signalling loop
    run_socket,            \* the orchestration future: running | returned | dropped, result
    repolled,              \* history: loops select! polled after they had completed
    builder,        \* the WebRtcSocketBuilder: channels (configs in order), attempts
    built,          \* what build() gave: ret "none" | "built" | "panic", the
                    \* socket and the future it produced (<<>> when there is none)
    ready_q,        \* per channel: notifications buffered on its readiness link
    ready_tx,       \* per channel: the sending side of the link, "alive" | "dropped"
    ready_rx,       \* per channel: the receiver wait_for_ready owns, "alive" | "dropped"
    gate,           \* wait_for_ready: pos (index it waits for), state waiting | done | panicked
    notified,       \* history, per channel: notifications the link has accepted
    arrival,        \* history: the channel indices in the order of their first notification
    consumed        \* history: the channel indices whose notification the gate took, in order

chanVars == <<channels, from_peer, to_peer, enqueued, takeCalled, lastOp, tick,
              enq_hist, recv_hist>>
peerVars == <<peers, peer_state, changes, emitted, peersBefore, drained, updTick,
              sinceUpdate, lastDrained, lastReported, listed, qTick>>

idVars   == <<id, id_rx, id_pc, id_local, id_ret, id_sent, id_seen, id_returned>>

orchVars == <<message_loop_done, message_loop_out, signalling_loop_done,
              signalling_loop_out, attempts_made, run_socket, repolled>>

buildVars == <<builder, built>>

readyVars == <<ready_q, ready_tx, ready_rx, gate, notified, arrival, consumed>>

vars == <<chanVars, loop_alive, peerVars, idVars, orchVars, buildVars, readyVars>>

\* what the operations of one component leave alone
notChan  == <<peerVars, idVars, orchVars, buildVars, readyVars>>
notPeer  == <<chanVars, idVars, orchVars, buildVars, readyVars>>
notId    == <<chanVars, loop_alive, peerVars, orchVars, buildVars, readyVars>>
notOrch  == <<chanVars, peerVars, idVars, buildVars, readyVars>>
notBuild == <<chanVars, loop_alive, peerVars, idVars, orchVars, readyVars>>
notReady == <<chanVars, loop_alive, peerVars, idVars, orchVars, buildVars>>

(***************************************************************************)
(* futures_channel::mpsc::UnboundedReceiver::try_next as receive() and     *)
(* update_peers() use it: Ok(Some(x)) pops the head; Ok(None) when the     *)
(* queue is empty and every sender is gone; Err when it is empty and a     *)
(* sender is still alive.                                                  *)
(***************************************************************************)
try_next(queue, senderAlive) ==
    IF queue # <<>> THEN [tag |-> "OkSome", val |-> Head(queue), rest |-> Tail(queue)]
    ELSE IF senderAlive THEN [tag |-> "Err", val |-> <<>>, rest |-> queue]
    ELSE [tag |-> "OkNone", val |-> <<>>, rest |-> queue]

(***************************************************************************)
(* WebRtcChannel::receive:                                                 *)
(*   repeat_with(|| rx.try_next()).map_while(Result::ok).flatten().collect *)
(* map_while stops at the first Err only; an Ok(None) is passed on as an   *)
(* empty Option, which flatten skips, and the iteration goes on.  Once the *)
(* queue is empty, try_next's answer no longer changes, so the iteration   *)
(* ends iff that answer is Err; otherwise receive() spins for ever and     *)
(* hands nothing back, the popped items staying in the never-returned Vec. *)
(***************************************************************************)
RECURSIVE receive_iter(_, _, _)
receive_iter(queue, senderAlive, collected) ==
    LET r == try_next(queue, senderAlive) IN
    CASE r.tag = "OkSome" -> receive_iter(r.rest, senderAlive, Append(collected, r.val))
      [] r.tag = "Err"    -> [ret |-> "returned", items |-> collected, rest |-> r.rest]
      [] r.tag = "OkNone" -> [ret |-> "diverges", items |-> <<>>, rest |-> r.rest]

receive(queue, senderAlive) == receive_iter(queue, senderAlive, <<>>)

(***************************************************************************)
(* WebRtcSocketBuilder::build: panics without channels, else one           *)
(* Some(WebRtcChannel) per configured channel, each with two empty queues  *)
(* (WebRtcChannel::new), and a future that owns the collaborator halves.   *)
(***************************************************************************)
\* a build without the check for an empty channel list
build_allows_empty(n) ==
    [ret      |-> "built",
     channels |-> [i \in 0 .. (n - 1) |-> "Some"],
     from_peer |-> [i \in 0 .. (n - 1) |-> <<>>],
     to_peer   |-> [i \in 0 .. (n - 1) |-> <<>>]]

build(n) ==
    IF n = 0 THEN [ret |-> "panic"]
    ELSE [ret      |-> "built",
          channels |-> [i \in 0 .. (n - 1) |-> "Some"],
          from_peer |-> [i \in 0 .. (n - 1) |-> <<>>],
          to_peer   |-> [i \in 0 .. (n - 1) |-> <<>>]]

NoArg == [packet |-> "-", peer |-> "-"]

Op(name, ch, ret, items, arg) ==
    [op |-> name, ch |-> ch, ret |-> ret, items |-> items, arg |-> arg]

\* the caller's thread is still running: receive() has not spun for ever
CallerRunning == lastOp.ret # "diverges"

InitChannels ==
    /\ channels = build(NumChannels).channels
    /\ from_peer = build(NumChannels).from_peer
    /\ to_peer = build(NumChannels).to_peer
    /\ enqueued = 0
    /\ takeCalled = {}
    /\ lastOp = Op("none", 0, "init", <<>>, NoArg)
    /\ tick = FALSE
    /\ enq_hist = [i \in ChannelIds |-> <<>>]
    /\ recv_hist = [i \in ChannelIds |-> <<>>]

\* a lookup that wraps an out-of-range index round to a slot that exists
get_mut_wraps(vec, index) == <<vec[index % Cardinality(DOMAIN vec)]>>

\* Vec::get_mut(index): None when the index is out of range
get_mut(vec, index) == IF index \in DOMAIN vec THEN <<vec[index]>> ELSE <<>>

\* Option::as_mut on a slot: the slot keeps its value
as_mut(vec, index) == vec

\* a take that hands the handle out and leaves it in the slot as well
take_keeps_slot(vec, index) == vec

\* Option::take on a slot: the slot is left None
take(vec, index) == [vec EXCEPT ![index] = "None"]

HandleOrNone(slot) == IF slot = "Some" THEN "handle" ELSE "none"

(***************************************************************************)
(* WebRtcSocket::channel(i): expect() panics on an index without a slot.   *)
(***************************************************************************)
channel(i) ==
    /\ CallerRunning
    /\ tick' = ~tick
    /\ IF get_mut(channels, i) = <<>>
         THEN /\ lastOp' = Op("channel", i, "panic", <<>>, NoArg)
              /\ UNCHANGED channels
         ELSE /\ lastOp' = Op("channel", i, HandleOrNone(get_mut(channels, i)[1]), <<>>, NoArg)
              /\ channels' = as_mut(channels, i)
    /\ UNCHANGED <<from_peer, to_peer, loop_alive, enqueued, takeCalled, enq_hist, recv_hist>>
    /\ UNCHANGED notChan

(***************************************************************************)
(* WebRtcSocket::take_channel(i): as channel(i), but the slot is emptied.  *)
(***************************************************************************)
take_channel(i) ==
    /\ CallerRunning
    /\ tick' = ~tick
    /\ IF get_mut(channels, i) = <<>>
         THEN /\ lastOp' = Op("take_channel", i, "panic", <<>>, NoArg)
              /\ UNCHANGED <<channels, takeCalled>>
         ELSE /\ lastOp' = Op("take_channel", i, HandleOrNone(get_mut(channels, i)[1]), <<>>, NoArg)
              /\ channels' = take(channels, i)
              /\ takeCalled' = takeCalled \cup {i}
    /\ UNCHANGED <<from_peer, to_peer, loop_alive, enqueued, enq_hist, recv_hist>>
    /\ UNCHANGED notChan

(***************************************************************************)
(* UnboundedSender::unbounded_send: Err, and nothing queued, once the      *)
(* receiver is gone; else the message goes to the tail of the queue.       *)
(***************************************************************************)
unbounded_send_unchecked(queue, receiverAlive, msg) ==
    [tag |-> "Ok", queue |-> Append(queue, msg)]

unbounded_send(queue, receiverAlive, msg) ==
    IF receiverAlive THEN [tag |-> "Ok", queue |-> Append(queue, msg)]
    ELSE [tag |-> "Err", queue |-> queue]

(***************************************************************************)
(* WebRtcChannel::send(packet, peer) on the handle of channel i (held by   *)
(* the socket or taken by the caller): sends the pair (peer, packet);      *)
(* expect("Send failed") panics on Err.                                    *)
(***************************************************************************)
send(i, packet, peer) ==
    /\ CallerRunning
    /\ loop_alive => enqueued < MaxMsgs
    /\ tick' = ~tick
    /\ LET r == unbounded_send(to_peer[i], loop_alive, <<peer, packet>>) IN
         /\ to_peer' = [to_peer EXCEPT ![i] = r.queue]
         /\ lastOp' = Op("send", i, IF r.tag = "Ok" THEN "ok" ELSE "panic", <<>>,
                         [packet |-> packet, peer |-> peer])
         /\ enqueued' = IF r.tag = "Ok" THEN enqueued + 1 ELSE enqueued
    /\ UNCHANGED <<channels, from_peer, loop_alive, takeCalled, enq_hist, recv_hist>>
    /\ UNCHANGED notChan

(***************************************************************************)
(* WebRtcChannel::receive() on the handle of channel i.                    *)
(***************************************************************************)
receive_call(i) ==
    /\ CallerRunning
    /\ tick' = ~tick
    /\ LET r == receive(from_peer[i], loop_alive) IN
         /\ from_peer' = [from_peer EXCEPT ![i] = r.rest]
         /\ lastOp' = Op("receive", i, r.ret, r.items, NoArg)
         /\ recv_hist' = [recv_hist EXCEPT ![i] = @ \o r.items]
    /\ UNCHANGED <<channels, to_peer, loop_alive, enqueued, takeCalled, enq_hist>>
    /\ UNCHANGED notChan

(***************************************************************************)
(* The collaborator (message loop inside the MessageLoopFuture): it holds  *)
(* messages_from_peers_tx and peer_messages_out_rx of every channel.       *)
(***************************************************************************)
collab_enqueue(i, item) ==
    /\ loop_alive
    /\ enqueued < MaxMsgs
    /\ from_peer' = [from_peer EXCEPT ![i] = Append(@, item)]
    /\ enqueued' = enqueued + 1
    /\ enq_hist' = [enq_hist EXCEPT ![i] = Append(@, item)]
    /\ UNCHANGED <<channels, to_peer, loop_alive, takeCalled, lastOp, tick, recv_hist>>
    /\ UNCHANGED notChan

collab_dequeue(i) ==
    /\ loop_alive
    /\ to_peer[i] # <<>>
    /\ to_peer' = [to_peer EXCEPT ![i] = Tail(@)]
    /\ UNCHANGED <<channels, from_peer, loop_alive, enqueued, takeCalled, lastOp, tick,
                   enq_hist, recv_hist>>
    /\ UNCHANGED notChan

(***************************************************************************)
(* The MessageLoopFuture ends or is dropped: every from_peer sender and    *)
(* every to_peer receiver goes with it.  A dropped receiver discards what  *)
(* is still queued; items already queued for the caller stay readable.     *)
(***************************************************************************)
drop_loop ==
    /\ loop_alive
    /\ loop_alive' = FALSE
    /\ to_peer' = [i \in DOMAIN to_peer |-> <<>>]
    /\ UNCHANGED <<channels, from_peer, enqueued, takeCalled, lastOp, tick,
                   enq_hist, recv_hist>>
    /\ UNCHANGED notChan

NextChannels ==
    \/ \E i \in CallIndex : channel(i)
    \/ \E i \in CallIndex : take_channel(i)
    \/ \E i \in ChannelIds, packet \in Packet, peer \in PeerId : send(i, packet, peer)
    \/ \E i \in ChannelIds : receive_call(i)
    \/ \E i \in ChannelIds, item \in Item : collab_enqueue(i, item)
    \/ \E i \in ChannelIds : collab_dequeue(i)
    \/ drop_loop

(***************************************************************************)
(* The peer table.  HashMap::insert(id, state) returns the old entry and   *)
(* overwrites it; the table is a function on the recorded identifiers.     *)
(***************************************************************************)
hashmap_get(table, pid) == IF pid \in DOMAIN table THEN <<table[pid]>> ELSE <<>>

\* an insert that forgets a peer when it is reported Disconnected
hashmap_insert_drops_disconnected(table, pid, state) ==
    IF state = "Disconnected"
      THEN [x \in (DOMAIN table) \ {pid} |-> table[x]]
      ELSE [x \in (DOMAIN table) \cup {pid} |-> IF x = pid THEN state ELSE table[x]]

\* an insert that keeps the entry a peer already has
hashmap_insert_keeps_old(table, pid, state) ==
    [x \in (DOMAIN table) \cup {pid} |->
        IF x \in DOMAIN table THEN table[x] ELSE state]

hashmap_insert(table, pid, state) ==
    [x \in (DOMAIN table) \cup {pid} |-> IF x = pid THEN state ELSE table[x]]

is_change_always(old, state) == TRUE

\* a comparison that does not count the first observation of a peer
is_change_known_only(old, state) == old # <<>> /\ old # <<state>>

\* the comparison `old != Some(state)` of update_peers
is_change(old, state) == old # <<state>>

(***************************************************************************)
(* WebRtcSocket::update_peers: while try_next gives Ok(Some((id, state))), *)
(* insert the pair and push it on `changes` when the old entry differs.    *)
(* The loop ends on Err (nothing queued) and on Ok(None) (sender gone).    *)
(***************************************************************************)
\* an `if let` in the place of the `while let`: one event per call
update_peers_once(queue, senderAlive, table, acc) ==
    LET r == try_next(queue, senderAlive) IN
    IF r.tag = "OkSome"
      THEN [peers   |-> [x \in (DOMAIN table) \cup {r.val[1]} |->
                            IF x = r.val[1] THEN r.val[2] ELSE table[x]],
            changes |-> IF r.val[1] \in DOMAIN table /\ table[r.val[1]] = r.val[2]
                          THEN acc ELSE Append(acc, r.val),
            rest    |-> r.rest]
      ELSE [peers |-> table, changes |-> acc, rest |-> r.rest]

RECURSIVE update_peers_loop(_, _, _, _)
update_peers_loop(queue, senderAlive, table, acc) ==
    LET r == try_next(queue, senderAlive) IN
    IF r.tag = "OkSome"
      THEN LET pid   == r.val[1]
               state == r.val[2]
               old   == hashmap_get(table, pid)
           IN update_peers_loop(r.rest, senderAlive, hashmap_insert(table, pid, state),
                                IF is_change(old, state) THEN Append(acc, <<pid, state>>)
                                                         ELSE acc)
      ELSE [peers |-> table, changes |-> acc, rest |-> r.rest]

\* the state of the last pair of `pairs` that names pid, else `default`
LastOf(pairs, pid, default) ==
    LET at == {k \in 1 .. Len(pairs) : pairs[k][1] = pid} IN
    IF at = {} THEN default
    ELSE pairs[CHOOSE k \in at : \A m \in at : m <= k][2]

update_peers ==
    /\ LET r == update_peers_loop(peer_state, loop_alive, peers, <<>>) IN
         /\ peers' = r.peers
         /\ changes' = r.changes
         /\ peer_state' = r.rest
    /\ peersBefore' = peers
    /\ drained' = peer_state
    /\ updTick' = ~updTick
    /\ sinceUpdate' = "no event"
    /\ lastDrained' = [pid \in PeerId |-> LastOf(peer_state, pid, lastDrained[pid])]
    /\ lastReported' = [pid \in PeerId |-> LastOf(changes', pid, lastReported[pid])]
    /\ UNCHANGED <<emitted, loop_alive, listed, qTick>>
    /\ UNCHANGED notPeer

(***************************************************************************)
(* connected_peers() / disconnected_peers(): self.peers.iter() walks the   *)
(* table in an order of the HashMap's choosing; filter_map keeps the ids   *)
(* whose state is the wanted one.                                          *)
(***************************************************************************)
\* the orders in which HashMap::iter may yield the keys of the table
hashmap_iter(table) ==
    {order \in [1 .. Cardinality(DOMAIN table) -> DOMAIN table] :
        \A a, b \in DOMAIN order : a # b => order[a] # order[b]}

filter_map_keeps_all(table, order, wanted) == order

filter_map(table, order, wanted) ==
    SelectSeq(order, LAMBDA pid : table[pid] = wanted)

connected_peers ==
    /\ \E order \in hashmap_iter(peers) :
          listed' = [op |-> "connected_peers", ret |-> filter_map(peers, order, "Connected")]
    /\ qTick' = ~qTick
    /\ UNCHANGED <<peers, peer_state, changes, emitted, peersBefore, drained, updTick,
                   sinceUpdate, lastDrained, lastReported, loop_alive>>
    /\ UNCHANGED notPeer

disconnected_peers ==
    /\ \E order \in hashmap_iter(peers) :
          listed' = [op |-> "disconnected_peers",
                     ret |-> filter_map(peers, order, "Disconnected")]
    /\ qTick' = ~qTick
    /\ UNCHANGED <<peers, peer_state, changes, emitted, peersBefore, drained, updTick,
                   sinceUpdate, lastDrained, lastReported, loop_alive>>
    /\ UNCHANGED notPeer

\* the message loop reports a peer's state on peer_state_tx
emit_peer_state(pid, state) ==
    /\ loop_alive
    /\ emitted < MaxEvents
    /\ peer_state' = Append(peer_state, <<pid, state>>)
    /\ emitted' = emitted + 1
    /\ sinceUpdate' = IF sinceUpdate = "not called" THEN sinceUpdate ELSE "event"
    /\ UNCHANGED <<peers, changes, peersBefore, drained, updTick, loop_alive,
                   lastDrained, lastReported, listed, qTick>>
    /\ UNCHANGED notPeer

InitPeers ==
    /\ peers = << >>
    /\ peer_state = <<>>
    /\ changes = <<>>
    /\ emitted = 0
    /\ peersBefore = << >>
    /\ drained = <<>>
    /\ updTick = FALSE
    /\ sinceUpdate = "not called"
    /\ lastDrained = [pid \in PeerId |-> "none"]
    /\ lastReported = [pid \in PeerId |-> "none"]
    /\ listed = [op |-> "none", ret |-> <<>>]
    /\ qTick = FALSE

NextPeers ==
    \/ update_peers
    \/ connected_peers
    \/ disconnected_peers
    \/ \E pid \in PeerId, state \in PeerState : emit_peer_state(pid, state)
    \/ drop_loop

(***************************************************************************)
(* The identity latch.  id() is three steps: OnceBox::get, then            *)
(* Receiver::try_recv on the bounded(1) link, then OnceBox::get_or_init.   *)
(* id() takes &self, so calls of several contexts may interleave.          *)
(***************************************************************************)
\* OnceBox::get_or_init(|| v): sets the box if it is empty, returns its content
get_or_init_overwrites(box, v) == <<v>>

get_or_init(box, v) == IF box = <<>> THEN <<v>> ELSE box

\* crossbeam Receiver::try_recv: pops the buffered value, Err when there is none
try_recv(link) ==
    IF link # <<>> THEN [tag |-> "Ok", val |-> Head(link), rest |-> Tail(link)]
    ELSE [tag |-> "Err", val |-> "-", rest |-> link]

IdReturn(t, value) ==
    /\ id_ret' = [id_ret EXCEPT ![t] = value]
    /\ id_pc' = [id_pc EXCEPT ![t] = "idle"]
    /\ id_returned' = id_returned \cup {value[i] : i \in DOMAIN value}

\* `if let Some(id) = self.id.get() { Some(*id) }`
id_get(t) ==
    /\ id_pc[t] = "idle"
    /\ id_seen' = [id_seen EXCEPT ![t] = id_returned]
    /\ IF id # <<>>
         THEN IdReturn(t, id)
         ELSE /\ id_pc' = [id_pc EXCEPT ![t] = "try_recv"]
              /\ UNCHANGED <<id_ret, id_returned>>
    /\ UNCHANGED <<id, id_rx, id_local, id_sent>>
    /\ UNCHANGED notId

\* `else if let Ok(id) = self.id_rx.try_recv()`, and the final `else { None }`
id_try_recv(t) ==
    /\ id_pc[t] = "try_recv"
    /\ LET r == try_recv(id_rx) IN
         IF r.tag = "Ok"
           THEN /\ id_rx' = r.rest
                /\ id_local' = [id_local EXCEPT ![t] = r.val]
                /\ id_pc' = [id_pc EXCEPT ![t] = "get_or_init"]
                /\ UNCHANGED <<id_ret, id_returned>>
           ELSE /\ IdReturn(t, <<>>)
                /\ UNCHANGED <<id_rx, id_local>>
    /\ UNCHANGED <<id, id_sent, id_seen>>
    /\ UNCHANGED notId

\* `let id = self.id.get_or_init(|| id.into()); Some(*id)`
id_get_or_init(t) ==
    /\ id_pc[t] = "get_or_init"
    /\ id' = get_or_init(id, id_local[t])
    /\ IdReturn(t, id')
    /\ id_local' = [id_local EXCEPT ![t] = "-"]
    /\ UNCHANGED <<id_rx, id_sent, id_seen>>
    /\ UNCHANGED notId

(***************************************************************************)
(* The message loop puts an identity on id_tx.  The link holds one value:  *)
(* a value offered while it is full does not get in (a try_send fails, a   *)
(* send waits until the slot is free, which is a later step here).         *)
(***************************************************************************)
id_send(v) ==
    /\ id_sent < MaxIdSends
    /\ Len(id_rx) < 1
    /\ id_rx' = Append(id_rx, v)
    /\ id_sent' = id_sent + 1
    /\ UNCHANGED <<id, id_pc, id_local, id_ret, id_seen, id_returned>>
    /\ UNCHANGED notId

InitId ==
    /\ id = <<>>
    /\ id_rx = <<>>
    /\ id_pc = [t \in Thread |-> "idle"]
    /\ id_local = [t \in Thread |-> "-"]
    /\ id_ret = [t \in Thread |-> <<"not called">>]
    /\ id_sent = 0
    /\ id_seen = [t \in Thread |-> {}]
    /\ id_returned = {}

NextId ==
    \/ \E t \in Thread : id_get(t)
    \/ \E t \in Thread : id_try_recv(t)
    \/ \E t \in Thread : id_get_or_init(t)
    \/ \E v \in PeerId : id_send(v)

(***************************************************************************)
(* run_socket.  Both loops are fused futures that make progress only when  *)
(* run_socket polls them.  A loop is "ready" when its next poll returns    *)
(* Ready(out); it has completed ("terminated") once that poll was made,    *)
(* and it is "dropped" when run_socket ended without making it.            *)
(***************************************************************************)
Running == run_socket.state = "running"

\* Error::from(SignallingError): the error wrapped as Error::Signalling
ErrorFrom(e) == <<"Signalling", e>>

Returned(result) == [state |-> "returned", result |-> result]

\* FusedFuture::is_terminated of a Fuse
is_terminated(state) == state = "terminated"

\* one poller of select!: None for a terminated future, else its poll
poller(state) ==
    IF is_terminated(state) THEN "None"
    ELSE IF state = "ready" THEN "Ready"
    ELSE "Pending"

LoopState(f) == IF f = "message" THEN message_loop_done ELSE signalling_loop_done

(***************************************************************************)
(* select!: the pollers run in a shuffled order; the first Ready one wins  *)
(* and the later ones are not run; `complete` when no poller polled.       *)
(***************************************************************************)
select_winner(order) ==
    LET p1 == poller(LoopState(order[1]))
        p2 == poller(LoopState(order[2]))
    IN  IF p1 = "Ready" THEN order[1]
        ELSE IF p2 = "Ready" THEN order[2]
        ELSE IF p1 = "None" /\ p2 = "None" THEN "complete"
        ELSE "pending"

\* the futures select! polled in this round although they had completed
polled_terminated(order) ==
    LET p1 == poller(LoopState(order[1])) IN
    {f \in {order[1]} : LoopState(f) = "terminated" /\ p1 # "None"}
      \cup {f \in {order[2]} : /\ p1 # "Ready"
                               /\ LoopState(f) = "terminated"
                               /\ poller(LoopState(f)) # "None"}

\* `_ = message_loop_done => { debug!(..); break; }`
on_message_loop_propagates(out) ==
    IF out = "Err" THEN [do |-> "return", result |-> <<"Err", <<"Message", out>>>>]
    ELSE [do |-> "break", result |-> <<>>]

\* an arm that goes round again when the message loop ended in failure
on_message_loop_retries(out) ==
    IF out = "Err" THEN [do |-> "continue", result |-> <<>>]
    ELSE [do |-> "break", result |-> <<>>]

on_message_loop_waits(out) == [do |-> "continue", result |-> <<>>]

on_message_loop(out) == [do |-> "break", result |-> <<>>]

\* `sigloop = signalling_loop_done => match sigloop { Ok(()) => .., Err(e) => return .. }`
on_signalling_loop_logs(out) == [do |-> "continue", result |-> <<>>]

on_signalling_loop_breaks(out) ==
    IF out = "Ok" THEN [do |-> "break", result |-> <<>>]
    ELSE [do |-> "return", result |-> <<"Err", ErrorFrom(out)>>]

on_signalling_loop(out) ==
    IF out = "Ok" THEN [do |-> "continue", result |-> <<>>]
    ELSE [do |-> "return", result |-> <<"Err", ErrorFrom(out)>>]

\* a loop future when run_socket ends: dropped unless it had completed
AtEnd(state) == IF state = "terminated" THEN state ELSE "dropped"

(***************************************************************************)
(* One round of `loop { select! { .. } }` in which select! does not stay   *)
(* pending: the winner's arm runs, then the loop goes on, or run_socket    *)
(* returns (`break` leads to the final Ok(())) and drops what is left.     *)
(***************************************************************************)
select(order) ==
    /\ Running
    /\ LET w == select_winner(order)
           arm == CASE w = "message"    -> on_message_loop(message_loop_out)
                    [] w = "signalling" -> on_signalling_loop(signalling_loop_out)
                    [] OTHER            -> [do |-> "break", result |-> <<>>]
           msg == IF w = "message" THEN "terminated" ELSE message_loop_done
           sig == IF w = "signalling" THEN "terminated" ELSE signalling_loop_done
       IN  /\ w # "pending"
           /\ repolled' = repolled \cup polled_terminated(order)
           /\ IF arm.do = "continue"
                THEN /\ message_loop_done' = msg
                     /\ signalling_loop_done' = sig
                     /\ UNCHANGED <<run_socket, loop_alive>>
                ELSE /\ message_loop_done' = AtEnd(msg)
                     /\ signalling_loop_done' = AtEnd(sig)
                     /\ run_socket' = Returned(IF arm.do = "break" THEN <<"Ok">>
                                                                   ELSE arm.result)
                     /\ loop_alive' = FALSE
    /\ UNCHANGED <<message_loop_out, signalling_loop_out, attempts_made>>
    /\ UNCHANGED notOrch

\* the caller drops the MessageLoopFuture before it has resolved
drop_run_socket ==
    /\ Running
    /\ run_socket' = [state |-> "dropped", result |-> <<>>]
    /\ message_loop_done' = AtEnd(message_loop_done)
    /\ signalling_loop_done' = AtEnd(signalling_loop_done)
    /\ loop_alive' = FALSE
    /\ UNCHANGED <<message_loop_out, signalling_loop_out, attempts_made, repolled>>
    /\ UNCHANGED notOrch

(***************************************************************************)
(* The two loops, as far as run_socket can tell them apart.  The message   *)
(* loop comes to its end with some result.  The signalling loop ends       *)
(* cleanly, fails, or runs out of its `attempts` connection attempts and   *)
(* fails with ConnectionFailed.                                            *)
(***************************************************************************)
message_loop_ends(out) ==
    /\ Running
    /\ message_loop_done = "pending"
    /\ message_loop_done' = "ready"
    /\ message_loop_out' = out
    /\ UNCHANGED <<signalling_loop_done, signalling_loop_out, attempts_made,
                   run_socket, repolled, loop_alive>>
    /\ UNCHANGED notOrch

signalling_loop_ends(out) ==
    /\ Running
    /\ signalling_loop_done = "pending"
    /\ signalling_loop_done' = "ready"
    /\ signalling_loop_out' = out
    /\ UNCHANGED <<message_loop_done, message_loop_out, attempts_made,
                   run_socket, repolled, loop_alive>>
    /\ UNCHANGED notOrch

signalling_attempt_fails ==
    /\ Running
    /\ signalling_loop_done = "pending"
    /\ attempts_made < DefaultAttempts
    /\ attempts_made' = attempts_made + 1
    /\ IF attempts_made' = DefaultAttempts
         THEN /\ signalling_loop_done' = "ready"
              /\ signalling_loop_out' = "ConnectionFailed"
         ELSE UNCHANGED <<signalling_loop_done, signalling_loop_out>>
    /\ UNCHANGED <<message_loop_done, message_loop_out, run_socket, repolled, loop_alive>>
    /\ UNCHANGED notOrch

InitOrch ==
    /\ message_loop_done = "pending"
    /\ message_loop_out = "-"
    /\ signalling_loop_done = "pending"
    /\ signalling_loop_out = "-"
    /\ attempts_made = 0
    /\ run_socket = [state |-> "running", result |-> <<>>]
    /\ repolled = {}

NextOrch ==
    \/ \E order \in {<<"message", "signalling">>, <<"signalling", "message">>} :
          select(order)
    \/ drop_run_socket
    \/ \E out \in {"Ok", "Err"} : message_loop_ends(out)
    \/ \E out \in {"Ok", "Other"} : signalling_loop_ends(out)
    \/ signalling_attempt_fails

(***************************************************************************)
(* WebRtcSocketBuilder.  Every method takes the builder by value and hands *)
(* it back changed; build() consumes it.                                   *)
(***************************************************************************)
Option(S) == {<<>>} \cup {<<x>> : x \in S}

ChannelConfig == [ordered : BOOLEAN, max_retransmits : Option({0})]

\* ChannelConfig::unreliable()
unreliable == [ordered |-> FALSE, max_retransmits |-> <<0>>]

\* ChannelConfig::reliable()
reliable == [ordered |-> TRUE, max_retransmits |-> <<>>]

\* WebRtcSocketBuilder::new: no channel, three attempts
new == [channels |-> <<>>, attempts |-> <<DefaultAttempts>>]

Building == built.ret = "none"

\* Vec::push
push(vec, config) == Append(vec, config)

add_channel(config) ==
    /\ Building
    /\ Len(builder.channels) < MaxConfigured
    /\ builder' = [builder EXCEPT !.channels = push(@, config)]
    /\ UNCHANGED built
    /\ UNCHANGED notBuild

add_reliable_channel ==
    /\ Building
    /\ Len(builder.channels) < MaxConfigured
    /\ builder' = [builder EXCEPT !.channels = push(@, reliable)]
    /\ UNCHANGED built
    /\ UNCHANGED notBuild

add_unreliable_channel ==
    /\ Building
    /\ Len(builder.channels) < MaxConfigured
    /\ builder' = [builder EXCEPT !.channels = push(@, unreliable)]
    /\ UNCHANGED built
    /\ UNCHANGED notBuild

reconnect_attempts(attempts) ==
    /\ Building
    /\ builder' = [builder EXCEPT !.attempts = attempts]
    /\ UNCHANGED built
    /\ UNCHANGED notBuild

(***************************************************************************)
(* build(self): the socket with its slots, and the future run_socket(..)   *)
(* that owns the builder (`self`) and the collaborator halves; on a panic  *)
(* neither exists.                                                         *)
(***************************************************************************)
build_call ==
    /\ Building
    /\ LET r == build(Len(builder.channels)) IN
         built' = IF r.ret = "panic"
                    THEN [ret |-> "panic", socket |-> <<>>, future |-> <<>>]
                    ELSE [ret    |-> "built",
                          socket |-> <<[channels |-> r.channels]>>,
                          future |-> <<[config    |-> builder,
                                        from_peer |-> r.from_peer,
                                        to_peer   |-> r.to_peer]>>]
    /\ UNCHANGED builder
    /\ UNCHANGED notBuild

InitBuild ==
    /\ builder = new
    /\ built = [ret |-> "none", socket |-> <<>>, future |-> <<>>]

NextBuild ==
    \/ \E config \in ChannelConfig : add_channel(config)
    \/ add_reliable_channel
    \/ add_unreliable_channel
    \/ \E attempts \in Option({1, DefaultAttempts}) : reconnect_attempts(attempts)
    \/ build_call

(***************************************************************************)
(* The readiness gate.  create_data_channels_ready_fut makes one           *)
(* mpsc::channel(1) link per configured channel, hands the senders to the  *)
(* message loop and the receivers to wait_for_ready.  The links are        *)
(* indexed as the channels are, from 0.                                    *)
(***************************************************************************)
\* the indices of the links the gate was made with
Gated == DOMAIN ready_rx

\* the buffer argument of futures_channel::mpsc::channel(1)
ReadyBuffer == 1

\* capacity of a bounded link: its buffer plus one slot for its sender
ReadyCapacity == ReadyBuffer + 1

create_data_channels_ready_fut(n) ==
    /\ gate.state = "none"
    /\ ready_tx' = [i \in 0 .. (n - 1) |-> "alive"]
    /\ ready_rx' = [i \in 0 .. (n - 1) |-> "alive"]
    /\ ready_q' = [i \in 0 .. (n - 1) |-> 0]
    /\ notified' = [i \in 0 .. (n - 1) |-> 0]
    /\ gate' = [pos |-> 0, state |-> "waiting"]
    /\ UNCHANGED <<arrival, consumed>>
    /\ UNCHANGED notReady

\* Sender::try_send(()): Err when the receiver is gone or the link is full
try_send(count, receiverState) ==
    IF receiverState = "alive" /\ count < ReadyCapacity
      THEN [tag |-> "Ok", count |-> count + 1]
      ELSE [tag |-> "Err", count |-> count]

\* a next() that looks at the closing of the link before its buffer
next_closed_first(count, senderState) ==
    IF senderState = "dropped" THEN "None"
    ELSE IF count > 0 THEN "Some"
    ELSE "Pending"

\* a next() that takes the closing of the link for a notification
next_closed_is_ready(count, senderState) ==
    IF count > 0 \/ senderState = "dropped" THEN "Some" ELSE "Pending"

\* Receiver::next(): a buffered item first; None once the link is empty and
\* every sender is gone; pending otherwise
next(count, senderState) ==
    IF count > 0 THEN "Some"
    ELSE IF senderState = "dropped" THEN "None"
    ELSE "Pending"

(***************************************************************************)
(* wait_for_ready, one resumption: the receiver it waits on gives an item  *)
(* (the receiver is dropped with what it still buffers, and the loop goes  *)
(* to the next one or ends) or None (panic; unwinding drops the receivers  *)
(* that are left).                                                         *)
(***************************************************************************)
wait_for_ready ==
    /\ gate.state = "waiting"
    /\ LET i == gate.pos
           r == next(ready_q[i], ready_tx[i])
       IN  /\ r # "Pending"
           /\ IF r = "Some"
                THEN /\ ready_rx' = [ready_rx EXCEPT ![i] = "dropped"]
                     /\ ready_q' = [ready_q EXCEPT ![i] = 0]
                     /\ consumed' = Append(consumed, i)
                     /\ gate' = [pos   |-> i + 1,
                                 state |-> IF i + 1 = Cardinality(Gated) THEN "done"
                                                                  ELSE "waiting"]
                ELSE /\ ready_rx' = [j \in Gated |-> "dropped"]
                     /\ ready_q' = [j \in Gated |-> 0]
                     /\ gate' = [gate EXCEPT !.state = "panicked"]
                     /\ UNCHANGED consumed
    /\ UNCHANGED <<ready_tx, notified, arrival>>
    /\ UNCHANGED notReady

\* the message loop reports that channel i is ready
notify(i) ==
    /\ i \in Gated
    /\ ready_tx[i] = "alive"
    /\ LET r == try_send(ready_q[i], ready_rx[i]) IN
         /\ ready_q' = [ready_q EXCEPT ![i] = r.count]
         /\ notified' = [notified EXCEPT ![i] = IF r.tag = "Ok" THEN @ + 1 ELSE @]
         /\ arrival' = IF r.tag = "Ok" /\ notified[i] = 0 THEN Append(arrival, i)
                                                          ELSE arrival
    /\ UNCHANGED <<ready_tx, ready_rx, gate, consumed>>
    /\ UNCHANGED notReady

\* the message loop drops the sender of channel i
close_sender(i) ==
    /\ i \in Gated
    /\ ready_tx[i] = "alive"
    /\ ready_tx' = [ready_tx EXCEPT ![i] = "dropped"]
    /\ UNCHANGED <<ready_q, ready_rx, gate, notified, arrival, consumed>>
    /\ UNCHANGED notReady

\* before the message loop has made the links
InitReady ==
    /\ ready_tx = <<>>
    /\ ready_rx = <<>>
    /\ ready_q = <<>>
    /\ gate = [pos |-> 0, state |-> "none"]
    /\ notified = <<>>
    /\ arrival = <<>>
    /\ consumed = <<>>

NextReady ==
    \/ \E n \in 1 .. MaxConfigured : create_data_channels_ready_fut(n)
    \/ \E i \in 0 .. (MaxConfigured - 1) : notify(i)
    \/ \E i \in 0 .. (MaxConfigured - 1) : close_sender(i)
    \/ wait_for_ready

Init ==
    /\ InitChannels
    /\ loop_alive = TRUE
    /\ InitPeers
    /\ InitId
    /\ InitOrch
    /\ InitBuild
    /\ InitReady

Spec == Init /\ [][NextChannels]_vars

SpecPeers == Init /\ [][NextPeers]_vars

SpecId == Init /\ [][NextId]_vars

SpecOrch == Init /\ [][NextOrch]_vars

SpecBuild == Init /\ [][NextBuild]_vars

\* wait_for_ready is resumed whenever the receiver it waits on has an item
\* or has lost its senders: the link wakes the task that polls it
SpecReady == Init /\ [][NextReady]_vars /\ WF_vars(wait_for_ready)

(***************************************************************************)
(* Claims about the channel handles and the channel slots (Spec).          *)
(***************************************************************************)

\* the step is a caller operation `name` on channel index i
IsCall(name, i) == tick' # tick /\ lastOp'.op = name /\ lastOp'.ch = i

\* C1: receive() never blocks: whatever the state of the inbound queue
\* (empty, non-empty, sending end closed or dropped), every call of
\* receive() terminates and returns a result.
C1_ReceiveNeverBlocks ==
    lastOp.op = "receive" => lastOp.ret = "returned"

\* C8: a single receive() returns exactly the items enqueued on the channel
\* since the last drain, in enqueue order, and leaves the queue empty (so a
\* receive() right after it, with no arrival in between, returns nothing).
C8_ReceiveDrainsAll ==
    [][\A i \in ChannelIds :
         IsCall("receive", i) =>
            /\ lastOp'.ret = "returned"
            /\ lastOp'.items = from_peer[i]
            /\ from_peer'[i] = <<>>]_vars

\* C9: once take_channel(i) has been called, every later channel(i) and
\* take_channel(i) returns none and the slot never comes back; the slot of
\* any other index j is untouched, and channel(j) returns a live handle
\* as long as take_channel(j) was never called.
C9_TakenStaysNone ==
    [][\A i \in ChannelIds :
         /\ (i \in takeCalled /\ (IsCall("channel", i) \/ IsCall("take_channel", i)))
               => lastOp'.ret = "none"
         /\ (i \notin takeCalled /\ IsCall("channel", i)) => lastOp'.ret = "handle"
         /\ channels[i] = "None" => channels'[i] = "None"
         /\ IsCall("take_channel", i) =>
               \A j \in ChannelIds \ {i} : channels'[j] = channels[j]
         /\ (i \notin takeCalled') => channels'[i] = "Some"]_vars

\* a taken index answers none while another index still holds its handle
C9_Witness ==
    /\ lastOp.op \in {"channel", "take_channel"}
    /\ lastOp.ch \in takeCalled
    /\ lastOp.ret = "none"
    /\ \E j \in ChannelIds : j \notin takeCalled /\ channels[j] = "Some"

\* C10: send(packet, peer) never blocks; it appends (peer, packet) to the
\* tail of the channel's outbound queue, and fails fatally exactly when the
\* collaborator has dropped the receiving end, then enqueuing nothing.
C10_SendAppendsOrFails ==
    [][\A i \in ChannelIds :
         IsCall("send", i) =>
            /\ lastOp'.ret \in {"ok", "panic"}
            /\ lastOp'.ret = "panic" <=> ~loop_alive
            /\ loop_alive =>
                 to_peer' = [to_peer EXCEPT
                    ![i] = to_peer[i] \o << <<lastOp'.arg.peer, lastOp'.arg.packet>> >>]
            /\ ~loop_alive => to_peer' = to_peer]_vars

\* a send that landed behind an earlier packet in the outbound queue
C10_Witness ==
    /\ lastOp.op = "send"
    /\ lastOp.ret = "ok"
    /\ Len(to_peer[lastOp.ch]) = 2
    /\ to_peer[lastOp.ch][2] = <<lastOp.arg.peer, lastOp.arg.packet>>
    /\ to_peer[lastOp.ch][1] # to_peer[lastOp.ch][2]

(***************************************************************************)
(* Claims about run_socket (SpecOrch).                                     *)
(***************************************************************************)

\* C2: when the signalling loop completes with an error, run_socket ends
\* with exactly that error wrapped as Error::Signalling, whether the message
\* loop is still pending or is itself ready to complete.
C2_SignallingErrorIsFatal ==
    (signalling_loop_done = "terminated" /\ signalling_loop_out \in SignallingError)
       => run_socket = [state  |-> "returned",
                        result |-> <<"Err", <<"Signalling", signalling_loop_out>>>>]

\* the retry bound ran out while the message loop was ready to complete too
C2_Witness ==
    /\ attempts_made = DefaultAttempts
    /\ signalling_loop_done = "terminated"
    /\ run_socket.state = "returned"
    /\ run_socket.result = <<"Err", <<"Signalling", "ConnectionFailed">>>>
    /\ message_loop_done = "dropped"
    /\ message_loop_out # "-"

\* C3: a signalling loop that completes with Ok before the message loop does
\* not end run_socket: it is never polled again, and run_socket returns
\* (with Ok) only once the message loop has completed.
C3_SignallingOkKeepsRunning ==
    /\ "signalling" \notin repolled
    /\ (signalling_loop_done = "terminated" /\ signalling_loop_out = "Ok")
          => /\ message_loop_done # "terminated" => run_socket.state # "returned"
             /\ run_socket.state = "returned"
                   => /\ message_loop_done = "terminated"
                      /\ run_socket.result = <<"Ok">>

\* signalling completed first with Ok, the message loop later, then Ok
C3_Witness ==
    /\ signalling_loop_done = "terminated"
    /\ signalling_loop_out = "Ok"
    /\ message_loop_done = "terminated"
    /\ run_socket = [state |-> "returned", result |-> <<"Ok">>]

\* C4: when the message loop completes while the signalling loop has not,
\* run_socket returns Ok without waiting for the signalling loop, whatever
\* the message loop returned.
C4_MessageLoopEndsSocket ==
    (message_loop_done = "terminated" /\ signalling_loop_done # "terminated")
       => run_socket = [state |-> "returned", result |-> <<"Ok">>]

\* the message loop returned a failure while signalling was still pending
C4_Witness ==
    /\ message_loop_done = "terminated"
    /\ message_loop_out = "Err"
    /\ signalling_loop_done = "dropped"
    /\ signalling_loop_out = "-"
    /\ run_socket = [state |-> "returned", result |-> <<"Ok">>]

\* C5: run_socket resolves at most once, to one Ok or one Err that never
\* changes; it is Err only if the signalling loop completed with an error,
\* and then it carries that error; a failure of the message loop never
\* becomes run_socket's error.
C5_SingleOutcome ==
    /\ [](/\ run_socket.state = "returned"
             => run_socket.result \in
                   {<<"Ok">>} \cup {<<"Err", <<"Signalling", e>>>> : e \in SignallingError}
          /\ run_socket.state # "returned" => run_socket.result = <<>>
          /\ (run_socket.state = "returned" /\ run_socket.result # <<"Ok">>)
                => /\ signalling_loop_done = "terminated"
                   /\ run_socket.result = <<"Err", <<"Signalling", signalling_loop_out>>>>)
    /\ [][run_socket.state = "returned" => run_socket' = run_socket]_vars

\* the message loop was about to fail, the error returned is signalling's
C5_Witness ==
    /\ run_socket.state = "returned"
    /\ run_socket.result = <<"Err", <<"Signalling", "Other">>>>
    /\ message_loop_out = "Err"

(***************************************************************************)
(* Claims about the peer table (SpecPeers).                                *)
(***************************************************************************)

\* the state on record for the peer of events[k] when events[k] is processed
RecordedAt(table, events, k) ==
    LET prior == {j \in 1 .. (k - 1) : events[j][1] = events[k][1]} IN
    IF prior # {} THEN events[CHOOSE j \in prior : \A m \in prior : m <= j][2]
    ELSE IF events[k][1] \in DOMAIN table THEN table[events[k][1]]
    ELSE "unrecorded"

ChangedAt(table, events) ==
    {k \in 1 .. Len(events) : events[k][2] # RecordedAt(table, events, k)}

\* the subsequence of events at the positions K, in order
Pick(events, K) ==
    [n \in 1 .. Cardinality(K) |->
        events[CHOOSE k \in K : Cardinality({j \in K : j <= k}) = n]]

\* the table with every event written over it: the last event of a peer wins
Overwritten(table, events) ==
    LET named == {events[k][1] : k \in 1 .. Len(events)} IN
    [pid \in (DOMAIN table) \cup named |->
        IF pid \in named
          THEN LET at == {k \in 1 .. Len(events) : events[k][1] = pid}
               IN events[CHOOSE k \in at : \A m \in at : m <= k][2]
          ELSE table[pid]]

\* C6: update_peers() drains every buffered event in arrival order,
\* overwrites the table entry for each, and returns exactly the ordered
\* subsequence of the drained events whose state differs from the state on
\* record for the identifier when the event is processed, an unrecorded
\* identifier always counting as differing.
C6_UpdatePeersReturnsChanges ==
    [][updTick' # updTick =>
          /\ peer_state' = <<>>
          /\ peers' = Overwritten(peers, peer_state)
          /\ changes' = Pick(peer_state, ChangedAt(peers, peer_state))]_vars

\* [(A,Connected),(A,Connected),(B,Disconnected)] on an empty table
C6_Witness ==
    /\ DOMAIN peersBefore = {}
    /\ drained = << <<"A", "Connected">>, <<"A", "Connected">>, <<"B", "Disconnected">> >>
    /\ changes = << <<"A", "Connected">>, <<"B", "Disconnected">> >>
    /\ peer_state = <<>>

(***************************************************************************)
(* Claims about the identity latch (SpecId).                               *)
(***************************************************************************)

NotCalled == <<"not called">>

\* C7: id() returns none as long as nothing was delivered on the identity
\* link; once an id() call has returned a value v, every later call returns
\* v, also when further values are sent on the link; the latch is set at
\* most once.
C7_IdentityLatch ==
    /\ [](\A t \in Thread :
            /\ id_sent = 0 => id_ret[t] \in {NotCalled, <<>>}
            /\ (id_pc[t] = "idle" /\ id_ret[t] # NotCalled /\ id_seen[t] # {})
                  => id_seen[t] = {id_ret[t][i] : i \in DOMAIN id_ret[t]})
    /\ [][id # <<>> => id' = id]_vars

\* a call made after A was returned returns A while a late B sits on the link
C7_Witness ==
    /\ id_sent = 2
    /\ id_rx = <<"B">>
    /\ \E t \in Thread :
          id_pc[t] = "idle" /\ id_seen[t] = {"A"} /\ id_ret[t] = <<"A">>

(***************************************************************************)
(* Further claims about the peer table (SpecPeers).                        *)
(***************************************************************************)

Range(seq) == {seq[k] : k \in DOMAIN seq}

\* the states of the pairs of `pairs` that name pid, in order
StatesOf(pairs, pid) ==
    LET sel == SelectSeq(pairs, LAMBDA e : e[1] = pid) IN
    [k \in 1 .. Len(sel) |-> sel[k][2]]

\* the state on record for pid in the table, "none" when it has no entry
Recorded(table, pid) == IF pid \in DOMAIN table THEN table[pid] ELSE "none"

\* C11: an update_peers() call that follows another one with no peer-state
\* event arriving in between returns an empty result and leaves the peer
\* table as it is.
C11_SecondUpdateIsEmpty ==
    [][(updTick' # updTick /\ sinceUpdate = "no event")
          => (changes' = <<>> /\ peers' = peers)]_vars

\* a second call right after one that had recorded peers
C11_Witness ==
    /\ sinceUpdate = "no event"
    /\ drained = <<>>
    /\ changes = <<>>
    /\ DOMAIN peers = PeerId
    /\ peersBefore = peers

\* C12: table entries are inserted or overwritten, never removed: a recorded
\* identifier stays recorded in every later state, and a peer whose last
\* drained event was Disconnected is listed by disconnected_peers().
C12_EntriesNeverRemoved ==
    [][/\ DOMAIN peers \subseteq DOMAIN peers'
       /\ (qTick' # qTick /\ listed'.op = "disconnected_peers")
             => \A pid \in PeerId :
                   lastDrained[pid] = "Disconnected" => pid \in Range(listed'.ret)]_vars

\* a peer that connected and then disconnected is still listed
C12_Witness ==
    /\ listed.op = "disconnected_peers"
    /\ \E pid \in PeerId :
          /\ pid \in Range(listed.ret)
          /\ lastDrained[pid] = "Disconnected"
          /\ <<pid, "Connected">> \in Range(drained)
          /\ <<pid, "Disconnected">> \in Range(drained)

\* C15: connected_peers() and disconnected_peers() are read-only filters
\* over the table: they change neither the table nor the pending events,
\* together they list every recorded peer exactly once (Connected ones in
\* the first, Disconnected ones in the second), and they show only what
\* update_peers() has drained: buffered events do not affect them.
C15_QueriesAreReadOnlyFilters ==
    [][qTick' # qTick =>
          LET want  == IF listed'.op = "connected_peers" THEN "Connected"
                                                         ELSE "Disconnected"
              other == IF listed'.op = "connected_peers" THEN "Disconnected"
                                                         ELSE "Connected"
              ret   == listed'.ret
          IN  /\ listed'.op \in {"connected_peers", "disconnected_peers"}
              /\ peers' = peers
              /\ peer_state' = peer_state
              /\ \A a, b \in DOMAIN ret : a # b => ret[a] # ret[b]
              /\ Range(ret) = {pid \in DOMAIN peers : peers[pid] = want}
              /\ Range(ret) = {pid \in PeerId : lastDrained[pid] = want}
              /\ Range(ret) \cup {pid \in PeerId : lastDrained[pid] = other} = DOMAIN peers
              /\ Range(ret) \cap {pid \in PeerId : lastDrained[pid] = other} = {}]_vars

\* A is listed as connected while its disconnection is buffered, not drained
C15_Witness ==
    /\ listed = [op |-> "connected_peers", ret |-> <<"A">>]
    /\ peers = [pid \in PeerId |-> IF pid = "A" THEN "Connected" ELSE "Disconnected"]
    /\ peer_state = << <<"A", "Disconnected">> >>

\* C19 as claimed: the change-set of one update_peers() call holds at most
\* one entry per peer, and an entry for a peer only if the peer's recorded
\* state after the call differs from the one before it (or the peer was
\* unrecorded).
C19_MinimalChangeSet ==
    [][updTick' # updTick =>
          \A pid \in PeerId :
             LET E == StatesOf(changes', pid) IN
             /\ Len(E) <= 1
             /\ Len(E) = 1 => Recorded(peers', pid) # Recorded(peers, pid)]_vars

\* C19 as amended: the change-set holds one entry per observed transition:
\* a peer has an entry whenever its recorded state after the call differs
\* from the one before it (or it was unrecorded); the entries of one peer
\* alternate in state, the first differing from the state recorded before
\* the call and the last being the state recorded after it; there are no
\* more entries for a peer than events drained for it.
C19_ChangeSetPerTransition ==
    [][updTick' # updTick =>
          \A pid \in PeerId :
             LET E == StatesOf(changes', pid) IN
             /\ Recorded(peers', pid) # Recorded(peers, pid) => E # <<>>
             /\ E # <<>> => /\ E[1] # Recorded(peers, pid)
                            /\ E[Len(E)] = Recorded(peers', pid)
             /\ \A k \in 1 .. (Len(E) - 1) : E[k] # E[k + 1]
             /\ Len(E) <= Len(StatesOf(peer_state, pid))]_vars

\* a peer reported twice in one change-set, its recorded state unchanged
C19_Witness ==
    \E pid \in DOMAIN peersBefore :
       /\ peers[pid] = peersBefore[pid]
       /\ Len(StatesOf(changes, pid)) = 2

\* C20: over all update_peers() calls the changes reported for one peer
\* never repeat a state (they alternate), and the table entry of a recorded
\* peer is the state of the last event drained for it and of the last
\* change reported for it.
C20_ReportsAlternate ==
    /\ [](\A pid \in PeerId :
            /\ pid \in DOMAIN peers <=> lastDrained[pid] # "none"
            /\ Recorded(peers, pid) = lastDrained[pid]
            /\ Recorded(peers, pid) = lastReported[pid])
    /\ [][updTick' # updTick =>
            \A pid \in PeerId :
               LET E == <<lastReported[pid]>> \o StatesOf(changes', pid) IN
               \A k \in 1 .. (Len(E) - 1) : E[k] # E[k + 1]]_vars

\* a later call reports a recorded peer's change and suppresses a repeat
C20_Witness ==
    \E pid \in DOMAIN peersBefore :
       /\ StatesOf(changes, pid) = <<peers[pid]>>
       /\ Len(StatesOf(drained, pid)) = 2
       /\ peersBefore[pid] # peers[pid]

(***************************************************************************)
(* Further claims about the channel slots (Spec).                          *)
(***************************************************************************)

\* C14: channel(i) and take_channel(i) with an index that is not a
\* configured channel index fail fatally (no none, no error value) and
\* leave every slot as it is; with a valid index they never fail and return
\* the live handle or none.
C14_BadIndexIsFatal ==
    [][\A i \in CallIndex :
          (IsCall("channel", i) \/ IsCall("take_channel", i)) =>
             IF i \in ChannelIds
               THEN /\ lastOp'.ret \in {"handle", "none"}
                    /\ lastOp'.ret = "handle" <=> channels[i] = "Some"
               ELSE /\ lastOp'.ret = "panic"
                    /\ channels' = channels]_vars

\* take_channel with the first index past the configured ones has panicked,
\* the slots, one of them taken earlier, are as they were
C14_Witness ==
    /\ lastOp.op = "take_channel"
    /\ lastOp.ch = NumChannels
    /\ lastOp.ret = "panic"
    /\ takeCalled = {0}
    /\ channels = [i \in ChannelIds |-> IF i = 0 THEN "None" ELSE "Some"]

(***************************************************************************)
(* Further claims about run_socket (SpecOrch).                             *)
(***************************************************************************)

\* both loops have come to their end: completed, or about to on their poll
BothComplete ==
    /\ message_loop_done \in {"ready", "terminated"}
    /\ signalling_loop_done \in {"ready", "terminated"}

\* C16: once both the signalling loop and the message loop have completed,
\* run_socket has returned, with Ok unless the signalling loop completed
\* with an error; and while both are at their end run_socket never stays
\* waiting: select! is never pending, and every round either ends
\* run_socket or completes the signalling loop with Ok and leaves the
\* message loop to end it in the next round.
C16_ExhaustionFallback ==
    /\ []((message_loop_done = "terminated" /\ signalling_loop_done = "terminated")
            => /\ run_socket.state = "returned"
               /\ signalling_loop_out \notin SignallingError
                     => run_socket.result = <<"Ok">>)
    /\ []((Running /\ BothComplete)
            => \A order \in {<<"message", "signalling">>, <<"signalling", "message">>} :
                  select_winner(order) # "pending")
    /\ [][(Running /\ BothComplete) =>
            \/ /\ run_socket'.state = "returned"
               /\ signalling_loop_out \notin SignallingError
                     => run_socket'.result = <<"Ok">>
            \/ run_socket'.state = "dropped"
            \/ /\ Running'
               /\ signalling_loop_done = "ready"
               /\ signalling_loop_out = "Ok"
               /\ signalling_loop_done' = "terminated"
               /\ message_loop_done' = "ready"]_vars

\* signalling had failed attempts and then ended with Ok, the message loop
\* ended in failure: both completed and run_socket returned Ok
C16_Witness ==
    /\ message_loop_done = "terminated"
    /\ message_loop_out = "Err"
    /\ signalling_loop_done = "terminated"
    /\ signalling_loop_out = "Ok"
    /\ attempts_made > 0
    /\ run_socket = [state |-> "returned", result |-> <<"Ok">>]

(***************************************************************************)
(* Claims about the builder (SpecBuild).                                   *)
(***************************************************************************)

\* C13: build() succeeds exactly when at least one channel is configured:
\* with N >= 1 configured channels it gives a socket with exactly N live
\* channel handles at the indices 0..N-1, in the order of configuration
\* (the future owns the configuration list as it was given); with no
\* channel configured it panics and neither a socket nor a future exists.
C13_BuildNeedsAChannel ==
    /\ [](built.ret = "built" =>
            LET n == Len(builder.channels) IN
            /\ n >= 1
            /\ Len(built.socket) = 1
            /\ Len(built.future) = 1
            /\ DOMAIN built.socket[1].channels = 0 .. (n - 1)
            /\ Cardinality(DOMAIN built.socket[1].channels) = n
            /\ \A i \in 0 .. (n - 1) : built.socket[1].channels[i] = "Some"
            /\ DOMAIN built.future[1].from_peer = 0 .. (n - 1)
            /\ DOMAIN built.future[1].to_peer = 0 .. (n - 1)
            /\ built.future[1].config.channels = builder.channels)
    /\ [](built.ret = "panic" =>
            /\ Len(builder.channels) = 0
            /\ built.socket = <<>>
            /\ built.future = <<>>)
    /\ [][built' # built =>
            /\ built.ret = "none"
            /\ built'.ret = IF Len(builder.channels) >= 1 THEN "built" ELSE "panic"]_vars

\* a socket built from a reliable, then an unreliable channel, no retry bound
C13_Witness ==
    /\ built.ret = "built"
    /\ Len(builder.channels) >= 2
    /\ builder.channels[1] = reliable
    /\ builder.channels[2] = unreliable
    /\ builder.attempts = <<>>
    /\ built.socket[1].channels[1] = "Some"

(***************************************************************************)
(* Claims about the readiness gate (SpecReady).                            *)
(***************************************************************************)

AllNotified == gate.state # "none" /\ \A i \in Gated : notified[i] >= 1

\* the sender of link i was dropped before the link took a notification
ClosedEarly(i) == i \in Gated /\ ready_tx[i] = "dropped" /\ notified[i] = 0

\* C17: the gate completes only after it has taken one notification from
\* every configured channel, and it takes them in configured order;
\* notifications that arrive in another order stay buffered, and once all
\* channels have notified the gate has not failed, is not blocked, and
\* completes.
C17_GateWaitsForAll ==
    /\ [](gate.state = "done" =>
            /\ AllNotified
            /\ consumed = [k \in 1 .. Cardinality(Gated) |-> k - 1])
    /\ [](\A k \in DOMAIN consumed : consumed[k] = k - 1 /\ notified[k - 1] >= 1)
    /\ [](AllNotified => gate.state # "panicked")
    /\ []((AllNotified /\ gate.state = "waiting")
            => next(ready_q[gate.pos], ready_tx[gate.pos]) = "Some")
    /\ (AllNotified ~> gate.state = "done")

\* three channels notified in the order 2, 0, 1 and the gate completed
C17_Witness ==
    /\ gate.state = "done"
    /\ arrival = <<2, 0, 1>>
    /\ consumed = <<0, 1, 2>>

\* C18 as claimed: when the sender of any channel's link is dropped before
\* its notification, the gate panics (it neither completes nor waits for
\* ever); a link that notifies and is then closed causes no failure.
C18_AnyEarlyCloseIsFatal ==
    /\ \A i \in 0 .. (MaxConfigured - 1) : ClosedEarly(i) ~> gate.state = "panicked"
    /\ [](\A i \in 0 .. (MaxConfigured - 1) : ClosedEarly(i) => gate.state # "done")
    /\ [](gate.state = "panicked" => notified[gate.pos] = 0)

\* C18 as amended: when the sender of a channel's link is dropped before
\* its notification, the gate never completes, and it panics once every
\* earlier channel has notified; the gate panics only at a link that was
\* closed before its notification, after taking the notifications of all
\* earlier channels, so a link that notifies and is then closed causes no
\* failure.
C18_EarlyCloseIsFatalInOrder ==
    /\ \A i \in 0 .. (MaxConfigured - 1) :
          (ClosedEarly(i) /\ \A j \in 0 .. (i - 1) : notified[j] >= 1)
             ~> gate.state = "panicked"
    /\ [](\A i \in 0 .. (MaxConfigured - 1) : ClosedEarly(i) => gate.state # "done")
    /\ [](gate.state = "panicked" =>
            /\ ClosedEarly(gate.pos)
            /\ consumed = [k \in 1 .. gate.pos |-> k - 1])

\* channel 0 notified and closed, channel 1 closed without notifying: the
\* gate took the notification of channel 0 and panicked at channel 1
C18_Witness ==
    /\ gate = [pos |-> 1, state |-> "panicked"]
    /\ consumed = <<0>>
    /\ ready_tx[0] = "dropped"
    /\ ready_tx[1] = "dropped"
    /\ notified[1] = 0

(***************************************************************************)
(* Claims about the queues of the channels (Spec).                         *)
(***************************************************************************)

\* the step is a send() or a receive() on the handle of channel i
IsQueueCall(i) == IsCall("send", i) \/ IsCall("receive", i)

\* send() and receive() on channel i leave the queues of every other channel
OtherQueuesUntouched ==
    \A i \in ChannelIds :
       IsQueueCall(i) =>
          \A j \in ChannelIds \ {i} :
             from_peer'[j] = from_peer[j] /\ to_peer'[j] = to_peer[j]

\* C21: under any interleaving of collaborator enqueues and receive() calls
\* on a channel, every enqueued item is returned by exactly one receive()
\* (what was enqueued is what was returned so far followed by what is still
\* queued: none lost, none duplicated, same order, the results a prefix of
\* the enqueue sequence), and neither send() nor receive() on channel i
\* changes the inbound or outbound queue of another channel.
C21_ExactlyOnceInOrder ==
    /\ [](\A i \in ChannelIds : enq_hist[i] = recv_hist[i] \o from_peer[i])
    /\ [][OtherQueuesUntouched]_vars

====
